---- MODULE Spec2Model ----
(***************************************************************************)
(* r.import.probav_lc: one process per invocation of the module.  The      *)
(* download directory <directory>/<year> (one directory and one year here) *)
(* and the mapset outlive the process; everything else is the state of the *)
(* running process.  Processes run one after the other.                    *)
(***************************************************************************)
EXTENDS Integers, Sequences, FiniteSets, TLC

\* Checksums of the remote archive are drawn from 1..MaxSum.
MaxSum == 2

\* A key that is not in a dictionary.
None == 0

Sums == 1..MaxSum

\* The files of the record whose checksums are read: two layers.
RemoteFiles == {"dcm.tif", "bare.tif"}

\* The lines of the URL list written by zenodo_get: the layers and a document.
UrlLines == <<"bare.tif", "dcm.tif", "doc.pdf">>

\* The keywords of the products a lower-cased file name contains.
Keywords(entry) ==
    CASE entry = "dcm.tif"  -> {"discrete-classification-map"}
      [] entry = "bare.tif" -> {"bare-coverfraction"}
      [] OTHER              -> {}

EndsWithTif(entry) == entry \in {"dcm.tif", "bare.tif"}

\* The output options in the order get_filenames tests them, each with the
\* keyword it looks for.
OutputOptions ==
    << [key |-> "discrete_classification_output", kw |-> "discrete-classification-map"],
       [key |-> "bare_coverfraction_output",      kw |-> "bare-coverfraction"] >>

OptionKeys == {OutputOptions[i].key : i \in 1..Len(OutputOptions)}

\* A variable of the environment the process starts in is set by the user or
\* not set.  The value is saved at import and used by cleanup alone, and it is
\* drawn where cleanup uses it; until then the variable is "start", or "module"
\* once main has set it.
EnvStart == {"unset", "user"}

StartEnv == [GDAL_CACHEMAX |-> "start", COMPRESS_OVERVIEW |-> "start",
             raised |-> FALSE]

TempDirs == {"tmp_dir", "download_tmp"}

EmptyDict == [f \in RemoteFiles |-> None]

VARIABLES
    pc,               \* position of the process
    options,          \* parsed options: directory set or not, output options set
    environ,          \* os.environ: GDAL_CACHEMAX, COMPRESS_OVERVIEW
    rm_folders,       \* folders registered for removal
    download_dir,     \* "none", "cache" (<directory>/<year>) or "download_tmp"
    md5sums,          \* checksums the archive reports in this run
    filenames,        \* selected files, in dictionary order
    files_to_download,
    old_md5sums,
    di,               \* position in files_to_download
    wi,               \* position in filenames
    exitKind,         \* "none", "ok" (return 0), "fatal" (grass.fatal), "error"
    tempdirs,         \* temporary directories that exist, with their files
    cacheDir,         \* <directory>/<year>: exists, tifs, md5sums.pkl
    rasters,          \* raster maps of the mapset
    before,           \* cacheDir when the process started
    prev,             \* the run before this one: its outputs and the checksums
                      \* of the files it selected, if it had the directory
                      \* option and returned 0
    trace             \* what the process has done so far

vars == << pc, options, environ, rm_folders,
           download_dir, md5sums, filenames, files_to_download, old_md5sums,
           di, wi, exitKind, tempdirs, cacheDir, rasters, before, prev, trace >>

procVars == << options, environ >>

NoCache == [exists |-> FALSE, tifs |-> {}, pkl |-> FALSE, sums |-> EmptyDict]

NoPrev == [valid |-> FALSE, outputs |-> {}, md5sums |-> EmptyDict]

Init ==
    /\ pc = "idle"
    /\ options = [directory |-> FALSE, outputs |-> {}]
    /\ environ = StartEnv
    /\ rm_folders = <<>>
    /\ download_dir = "none"
    /\ md5sums = EmptyDict
    /\ filenames = <<>>
    /\ files_to_download = <<>>
    /\ old_md5sums = EmptyDict
    /\ di = 1
    /\ wi = 1
    /\ exitKind = "none"
    /\ tempdirs = [d \in TempDirs |-> [exists |-> FALSE, files |-> {}]]
    /\ cacheDir = NoCache
    /\ rasters = {}
    /\ before = NoCache
    /\ prev = NoPrev
    /\ trace = <<>>

----
\* Helpers

Range(s) == {s[i] : i \in 1..Len(s)}

Event(op, file) == [op |-> op, file |-> file]

\* the positions of trace at which op was done to file
Positions(op, file) == {i \in 1..Len(trace) : trace[i] = Event(op, file)}

Done(op, file) == Positions(op, file) # {}

RECURSIVE TifLines(_, _)
\* the lines of the URL list that end with .tif: the keys of urls
TifLines(lines, i) ==
    IF i > Len(lines) THEN <<>>
    ELSE (IF EndsWithTif(lines[i]) THEN <<lines[i]>> ELSE <<>>) \o TifLines(lines, i + 1)

urls == TifLines(UrlLines, 1)

RECURSIVE InsertMatching(_, _, _, _)
\* one loop of get_filenames: filename_list[entry] = ... for every entry that
\* contains kw; a key already in the dictionary keeps its place
InsertMatching(keys, allfilenames, kw, i) ==
    IF i > Len(allfilenames) THEN keys
    ELSE InsertMatching(
           IF kw \in Keywords(allfilenames[i]) /\ allfilenames[i] \notin Range(keys)
             THEN Append(keys, allfilenames[i]) ELSE keys,
           allfilenames, kw, i + 1)

RECURSIVE get_filenames_from(_, _, _, _)
get_filenames_from(keys, allfilenames, outputs, k) ==
    IF k > Len(OutputOptions) THEN keys
    ELSE get_filenames_from(
           IF OutputOptions[k].key \in outputs
             THEN InsertMatching(keys, allfilenames, OutputOptions[k].kw, 1)
             ELSE keys,
           allfilenames, outputs, k + 1)

\* get_filenames: the keys of the returned dictionary, in insertion order
get_filenames(allfilenames, outputs) ==
    get_filenames_from(<<>>, allfilenames, outputs, 1)

\* filenames[file]: the raster map named by the last set option whose keyword
\* the file name contains (the map is named after the option here)
OutName(file, outputs) ==
    LET ks == {k \in 1..Len(OutputOptions) :
                 /\ OutputOptions[k].key \in outputs
                 /\ OutputOptions[k].kw \in Keywords(file)}
        last == CHOOSE k \in ks : \A j \in ks : j <= k
    IN OutputOptions[last].key

\* os.path.isfile(os.path.join(download_dir, file))
IsFile(dir, file) ==
    CASE dir = "cache"        -> file \in cacheDir.tifs
      [] dir = "download_tmp" -> file \in tempdirs["download_tmp"].files
      [] OTHER                -> FALSE

\* NeedsDownload without the branch for a file that has no stored checksum
NeedsDownload_NoElif(filename, isfile, old, md5) ==
    IF isfile
      THEN old[filename] # None /\ md5[filename] # old[filename]
      ELSE TRUE

\* lines 354-363: a selected file is put in files_to_download
NeedsDownload(filename, isfile, old, md5) ==
    IF isfile
      THEN \/ (old[filename] # None /\ md5[filename] # old[filename])
           \/ old[filename] = None
      ELSE TRUE

RECURSIVE ToDownload(_, _, _, _)
\* the loop over filenames that fills files_to_download
ToDownload(names, i, old, md5) ==
    IF i > Len(names) THEN <<>>
    ELSE (IF NeedsDownload(names[i], IsFile("cache", names[i]), old, md5)
            THEN <<names[i]>> ELSE <<>>) \o ToDownload(names, i + 1, old, md5)

\* NewSum that keeps the checksum loaded from md5sums.pkl
NewSum_Kept(file, old, md5) == old[file]

\* line 375: the checksum stored for a file that was downloaded
NewSum(file, old, md5) == md5[file]

\* SaveNeeded without the test for an empty files_to_download
SaveNeeded_Always(to_download, directory) == directory

\* line 378: md5sums.pkl is written
SaveNeeded(to_download, directory) == Len(to_download) > 0 /\ directory

\* ReprojectionFailed without the test for the output file
ReprojectionFailed_NoIsfile(raised, outExists) == raised

\* lines 422-425: grass.fatal is called
ReprojectionFailed(raised, outExists) == raised \/ ~outExists

\* AnnotateNeeded without the test of the option
AnnotateNeeded_Always(outputs) == TRUE

\* line 432
AnnotateNeeded(outputs) == "discrete_classification_output" \in outputs

\* RmTree for a list in which only the first folder was registered
RmTree_FirstOnly(dirs, folders) ==
    [d \in TempDirs |->
        IF folders # <<>> /\ d = Head(folders) /\ dirs[d].exists
          THEN [exists |-> FALSE, files |-> {}]
          ELSE dirs[d]]

\* lines 174-176: the temporary directories left after the loop of cleanup
RmTree(dirs, folders) ==
    [d \in TempDirs |->
        IF d \in Range(folders) /\ dirs[d].exists
          THEN [exists |-> FALSE, files |-> {}]
          ELSE dirs[d]]

\* lines 154-161 and 177-184: os.environ after cleanup, for the values gc and
\* co the variables had when the process started; a del of a variable that is
\* not set raises KeyError and ends cleanup
RestoredEnv(environ0, gc, co) ==
    LET savedGC == IF gc = "unset" THEN "None" ELSE gc
        savedCO == IF co = "unset" THEN "None" ELSE co
        env == [environ0 EXCEPT
                  !.GDAL_CACHEMAX = IF @ = "start" THEN gc ELSE @,
                  !.COMPRESS_OVERVIEW = IF @ = "start" THEN co ELSE @]
        first ==
          IF savedCO # "None" THEN [env EXCEPT !.COMPRESS_OVERVIEW = "user"]
          ELSE IF env.GDAL_CACHEMAX # "unset"
                 THEN IF env.COMPRESS_OVERVIEW = "unset"
                        THEN [env EXCEPT !.raised = TRUE]
                        ELSE [env EXCEPT !.COMPRESS_OVERVIEW = "unset"]
                 ELSE env
    IN IF first.raised THEN first
       ELSE IF savedGC # "None" THEN [first EXCEPT !.GDAL_CACHEMAX = "user"]
       ELSE IF first.COMPRESS_OVERVIEW # "unset"
              THEN IF first.GDAL_CACHEMAX = "unset"
                     THEN [first EXCEPT !.raised = TRUE]
                     ELSE [first EXCEPT !.GDAL_CACHEMAX = "unset"]
              ELSE first

Log(op, file) == trace' = Append(trace, Event(op, file))

\* the process ends: sys.exit, grass.fatal or an exception that nobody catches
Exit(kind) ==
    /\ exitKind' = kind
    /\ pc' = "atexit"

----
\* The process

\* lines 152-161 and 438-440: a new process; the options are parsed and
\* cleanup is registered
StartRun ==
    /\ pc \in {"idle", "gone"}
    /\ \E directory \in BOOLEAN, outputs \in SUBSET OptionKeys :
         options' = [directory |-> directory, outputs |-> outputs]
    /\ environ' = StartEnv
    /\ prev' = IF pc = "gone" /\ options.directory /\ exitKind = "ok"
                 THEN [valid |-> TRUE, outputs |-> options.outputs,
                       md5sums |-> [f \in RemoteFiles |->
                           IF f \in Range(filenames) THEN md5sums[f] ELSE None]]
                 ELSE NoPrev
    /\ before' = cacheDir
    /\ rm_folders' = <<>>
    /\ download_dir' = "none"
    /\ md5sums' = EmptyDict
    /\ filenames' = <<>>
    /\ files_to_download' = <<>>
    /\ old_md5sums' = EmptyDict
    /\ di' = 1
    /\ wi' = 1
    /\ exitKind' = "none"
    /\ trace' = <<>>
    /\ pc' = "request"
    /\ UNCHANGED << tempdirs, cacheDir, rasters >>

\* lines 299-327: the file list and the checksums of the record
Request ==
    /\ pc = "request"
    /\ rm_folders' = Append(rm_folders, "tmp_dir")
    /\ \E ok \in BOOLEAN :
         IF ok
           THEN \E sums \in [RemoteFiles -> Sums] :
                  /\ tempdirs' = [tempdirs EXCEPT !["tmp_dir"] =
                         [exists |-> TRUE, files |-> {"urls.txt", "md5sums.txt"}]]
                  /\ md5sums' = sums
                  /\ filenames' = get_filenames(urls, options.outputs)
                  /\ Log("fetch", "")
                  /\ pc' = "decide"
                  /\ UNCHANGED exitKind
           ELSE /\ tempdirs' = [tempdirs EXCEPT !["tmp_dir"] =
                         [exists |-> TRUE, files |-> {}]]
                /\ Exit("error")
                /\ UNCHANGED << md5sums, filenames, trace >>
    /\ UNCHANGED << procVars, download_dir, files_to_download, old_md5sums,
                    di, wi, cacheDir, rasters, before, prev >>

\* lines 329-369: the download directory and the files to download
Decide ==
    /\ pc = "decide"
    /\ IF options.directory
         THEN /\ download_dir' = "cache"
              /\ IF ~cacheDir.exists
                   THEN /\ cacheDir' = [cacheDir EXCEPT !.exists = TRUE]
                        /\ files_to_download' = filenames
                        /\ old_md5sums' = EmptyDict
                   ELSE LET old == IF cacheDir.pkl THEN cacheDir.sums ELSE EmptyDict
                        IN /\ old_md5sums' = old
                           /\ files_to_download' = ToDownload(filenames, 1, old, md5sums)
                           /\ UNCHANGED cacheDir
              /\ UNCHANGED << tempdirs, rm_folders >>
         ELSE /\ download_dir' = "download_tmp"
              /\ tempdirs' = [tempdirs EXCEPT !["download_tmp"] =
                                [exists |-> TRUE, files |-> {}]]
              /\ rm_folders' = Append(rm_folders, "download_tmp")
              /\ files_to_download' = filenames
              /\ old_md5sums' = EmptyDict
              /\ UNCHANGED cacheDir
    /\ di' = 1
    /\ Log("decide", "")
    /\ pc' = "download"
    /\ UNCHANGED << procVars, md5sums, filenames, wi, exitKind, rasters, before, prev >>

\* lines 371-375: one turn of the download loop.  wget.download raises, or
\* stores the download and returns the name of the file, so that
\* os.path.isfile(downloaded_file) holds whenever line 374 is reached
Download ==
    /\ pc = "download"
    /\ di <= Len(files_to_download)
    /\ LET file == files_to_download[di]
       IN \E stored \in BOOLEAN :
            IF stored
              THEN /\ IF download_dir = "cache"
                        THEN /\ cacheDir' = [cacheDir EXCEPT !.tifs = @ \cup {file}]
                             /\ UNCHANGED tempdirs
                        ELSE /\ tempdirs' = [tempdirs EXCEPT
                                   !["download_tmp"].files = @ \cup {file}]
                             /\ UNCHANGED cacheDir
                   /\ old_md5sums' = [old_md5sums EXCEPT
                                        ![file] = NewSum(file, old_md5sums, md5sums)]
                   /\ di' = di + 1
                   /\ Log("download", file)
                   /\ UNCHANGED << pc, exitKind >>
              ELSE /\ Exit("error")
                   /\ UNCHANGED << cacheDir, tempdirs, old_md5sums, di, trace >>
    /\ UNCHANGED << procVars, rm_folders, download_dir, md5sums, filenames,
                    files_to_download, wi, rasters, before, prev >>

\* lines 377-381: after the download loop md5sums.pkl is written, or not
SaveMd5sums ==
    /\ pc = "download"
    /\ di > Len(files_to_download)
    /\ IF SaveNeeded(files_to_download, options.directory)
         THEN /\ cacheDir' = [cacheDir EXCEPT !.pkl = TRUE, !.sums = old_md5sums]
              /\ Log("savepkl", "")
         ELSE UNCHANGED << cacheDir, trace >>
    /\ wi' = 1
    /\ pc' = "warp"
    /\ UNCHANGED << procVars, rm_folders, download_dir, md5sums, filenames,
                    files_to_download, old_md5sums, di, exitKind, tempdirs,
                    rasters, before, prev >>

\* lines 384-425: one file is reprojected into tmp_dir
Reproject ==
    /\ pc = "warp"
    /\ wi <= Len(filenames)
    /\ environ' = [environ EXCEPT !.GDAL_CACHEMAX = "module",
                                  !.COMPRESS_OVERVIEW = "module"]
    /\ LET file == filenames[wi]
       IN \E outcome \in {"ok", "raise", "nooutput", "error"} :
            /\ outcome = "ok" => IsFile(download_dir, file)
            /\ IF outcome = "error"
                 THEN \* g.region or g.proj fails, or proj has no epsg and no srid
                      /\ Exit("error")
                      /\ UNCHANGED << tempdirs, trace >>
                 ELSE /\ Log(IF outcome = "ok" THEN "warp" ELSE "warpfail", file)
                      /\ tempdirs' = [tempdirs EXCEPT !["tmp_dir"].files =
                            IF outcome = "ok" THEN @ \cup {file} ELSE @]
                      /\ IF ReprojectionFailed(outcome = "raise", outcome = "ok")
                           THEN Exit("fatal")
                           ELSE /\ pc' = "import"
                                /\ UNCHANGED exitKind
    /\ UNCHANGED << options, rm_folders,
                    download_dir, md5sums, filenames, files_to_download,
                    old_md5sums, di, wi, cacheDir, rasters, before, prev >>

\* lines 427-429: r.import of the reprojected file; run_command raises when
\* the module fails
Import ==
    /\ pc = "import"
    /\ LET file == filenames[wi]
       IN \E ok \in BOOLEAN :
            IF ok
              THEN /\ rasters' = rasters \cup {OutName(file, options.outputs)}
                   /\ Log("import", file)
                   /\ wi' = wi + 1
                   /\ pc' = "warp"
                   /\ UNCHANGED exitKind
              ELSE /\ Exit("error")
                   /\ UNCHANGED << rasters, trace, wi >>
    /\ UNCHANGED << procVars, rm_folders, download_dir, md5sums, filenames,
                    files_to_download, old_md5sums, di, tempdirs, cacheDir,
                    before, prev >>

\* lines 431-435 and 441: the categories, then return 0
Finish ==
    /\ pc = "warp"
    /\ wi > Len(filenames)
    /\ IF AnnotateNeeded(options.outputs)
         THEN Log("annotate", "")
         ELSE UNCHANGED trace
    /\ Exit("ok")
    /\ UNCHANGED << procVars, rm_folders, download_dir, md5sums, filenames,
                    files_to_download, old_md5sums, di, wi, tempdirs, cacheDir,
                    rasters, before, prev >>

\* lines 172-184: cleanup, run by atexit when the process ends
cleanup ==
    /\ pc = "atexit"
    /\ tempdirs' = RmTree(tempdirs, rm_folders)
    /\ \E gc \in EnvStart, co \in EnvStart :
         environ' = RestoredEnv(environ, gc, co)
    /\ Log("cleanup", "")
    /\ pc' = "exited"
    /\ UNCHANGED << options, rm_folders,
                    download_dir, md5sums, filenames, files_to_download,
                    old_md5sums, di, wi, exitKind, cacheDir, rasters, before, prev >>

\* line 441: the process is gone, and its environment with it
ProcessEnds ==
    /\ pc = "exited"
    /\ pc' = "gone"
    /\ environ' = StartEnv
    /\ UNCHANGED << options, rm_folders, download_dir, md5sums, filenames,
                    files_to_download, old_md5sums, di, wi, exitKind, tempdirs,
                    cacheDir, rasters, before, prev, trace >>

\* lines 353-354 and 362-363: between two runs the user may have removed a
\* tif from the download directory
UserRemovesTif ==
    /\ pc \in {"idle", "gone"}
    /\ \E f \in cacheDir.tifs : cacheDir' = [cacheDir EXCEPT !.tifs = @ \ {f}]
    /\ pc' = "idle"
    /\ options' = [directory |-> FALSE, outputs |-> {}]
    /\ environ' = StartEnv
    /\ rm_folders' = <<>>
    /\ download_dir' = "none"
    /\ md5sums' = EmptyDict
    /\ filenames' = <<>>
    /\ files_to_download' = <<>>
    /\ old_md5sums' = EmptyDict
    /\ di' = 1
    /\ wi' = 1
    /\ exitKind' = "none"
    /\ before' = cacheDir'
    /\ prev' = NoPrev
    /\ trace' = <<>>
    /\ UNCHANGED << tempdirs, rasters >>

Next ==
    \/ StartRun
    \/ Request
    \/ Decide
    \/ Download
    \/ SaveMd5sums
    \/ Reproject
    \/ Import
    \/ Finish
    \/ cleanup
    \/ ProcessEnds
    \/ UserRemovesTif

Spec == Init /\ [][Next]_vars

----
\* Properties

Selected == Range(filenames)

Scheduled == Range(files_to_download)

Reprojections(file) == Positions("warp", file) \cup Positions("warpfail", file)

AllDownloads == UNION {Positions("download", f) : f \in RemoteFiles}

AllReprojections == UNION {Reprojections(f) : f \in RemoteFiles}

AllImports == UNION {Positions("import", f) : f \in RemoteFiles}

AllBefore(A, B) == \A i \in A, j \in B : i < j

\* C1: with the directory option set, a selected file is left out of
\* files_to_download exactly when the year's directory existed before the run,
\* the file was in it, md5sums.pkl held a checksum for it and that checksum is
\* the one the archive reports now; every other selected file is scheduled.
C1_SkipIffCachedUnchanged ==
    (options.directory /\ Done("decide", "")) =>
        \A f \in Selected :
            (f \notin Scheduled) <=>
                /\ before.exists
                /\ f \in before.tifs
                /\ before.pkl
                /\ before.sums[f] # None
                /\ before.sums[f] = md5sums[f]

\* one selected file is skipped while another, cached with a different
\* checksum, is scheduled
C1_Witness ==
    /\ options.directory
    /\ Done("decide", "")
    /\ \E f \in Selected, g \in Selected :
         /\ f \notin Scheduled
         /\ g \in Scheduled
         /\ g \in before.tifs
         /\ before.sums[g] # None
         /\ before.sums[g] # md5sums[g]

\* the run before this one had the directory option set and returned 0, and
\* this run has the same outputs and is told the same checksums for the files
\* they select
SecondRun ==
    /\ prev.valid
    /\ options.directory
    /\ options.outputs = prev.outputs
    /\ Done("fetch", "")
    /\ \A f \in RemoteFiles : prev.md5sums[f] # None => md5sums[f] = prev.md5sums[f]

\* C2: a second run after a successful run with the directory option, with the
\* same outputs and unchanged remote checksums, downloads nothing and does not
\* write md5sums.pkl, and when it returns it has reprojected and imported every
\* selected file.
C2_RerunIdempotent ==
    SecondRun =>
        /\ AllDownloads = {}
        /\ ~Done("savepkl", "")
        /\ cacheDir = before
        /\ Done("decide", "") => files_to_download = <<>>
        /\ Selected = {f \in Range(urls) :
                          \E k \in 1..Len(OutputOptions) :
                              /\ OutputOptions[k].key \in options.outputs
                              /\ OutputOptions[k].kw \in Keywords(f)}
        /\ exitKind = "ok" =>
             \A f \in Selected : Done("warp", f) /\ Done("import", f)

\* a second run over both layers has returned 0
C2_Witness ==
    /\ SecondRun
    /\ pc = "gone"
    /\ exitKind = "ok"
    /\ Len(filenames) = 2
    /\ \A f \in Selected : Done("import", f)

\* C3: without the directory option, once the process has exited (return of
\* main, fatal error or exception) neither temporary directory exists.
C3_TempDirsRemoved ==
    (pc \in {"exited", "gone"} /\ ~options.directory) =>
        \A d \in TempDirs : ~tempdirs[d].exists /\ tempdirs[d].files = {}

\* a run without the directory option that downloaded into the temporary
\* directory and ended in the fatal error has exited
C3_Witness ==
    /\ pc = "gone"
    /\ ~options.directory
    /\ exitKind = "fatal"
    /\ AllDownloads # {}
    /\ Range(rm_folders) = TempDirs

\* the place of file in the sequence names, 0 when it is not in it
IndexIn(names, file) ==
    IF file \in Range(names)
      THEN CHOOSE k \in 1..Len(names) : names[k] = file
      ELSE 0

\* the place of a step in the order of the stages
Rank(e) ==
    CASE e.op = "fetch"    -> 1
      [] e.op = "decide"   -> 2
      [] e.op = "download" -> 2 + IndexIn(files_to_download, e.file)
      [] e.op = "savepkl"  -> 3 + Len(files_to_download)
      [] e.op \in {"warp", "warpfail"} ->
             2 + Len(files_to_download) + 2 * IndexIn(filenames, e.file)
      [] e.op = "import"   ->
             3 + Len(files_to_download) + 2 * IndexIn(filenames, e.file)
      [] e.op = "annotate" -> 4 + Len(files_to_download) + 2 * Len(filenames)
      [] OTHER             -> 5 + Len(files_to_download) + 2 * Len(filenames)

Ops == {trace[i].op : i \in 1..Len(trace)}

\* C4: the stages of a run come in one order: fetch, decide, the downloads and
\* the write of md5sums.pkl, then for each selected file in turn reprojection
\* and import, then the categories, which are set only with
\* discrete_classification_output; no stage starts before the one it follows
\* is complete.
C4_LinearOrder ==
    /\ \A i \in 1..(Len(trace) - 1) : Rank(trace[i]) < Rank(trace[i + 1])
    /\ \A i \in 1..Len(trace) :
         (trace[i].op \in {"download", "warp", "warpfail", "import"}) =>
            IndexIn(IF trace[i].op = "download" THEN files_to_download
                                                ELSE filenames, trace[i].file) > 0
    /\ "decide" \in Ops => "fetch" \in Ops
    /\ (Ops \cap {"download", "savepkl", "warp", "warpfail"} # {}) => "decide" \in Ops
    /\ (Ops \cap {"warp", "warpfail"} # {}) =>
         /\ \A f \in Scheduled : Done("download", f)
         /\ (options.directory /\ Scheduled # {}) => "savepkl" \in Ops
    /\ \A k \in 1..Len(filenames) :
         /\ Done("import", filenames[k]) => Done("warp", filenames[k])
         /\ (k > 1 /\ Reprojections(filenames[k]) # {}) =>
              Done("import", filenames[k - 1])
    /\ "annotate" \in Ops =>
         /\ "discrete_classification_output" \in options.outputs
         /\ \A f \in Selected : Done("import", f)

\* both layers were downloaded, md5sums.pkl was written, both were imported
\* and the categories were set
C4_Witness ==
    /\ Done("annotate", "")
    /\ Done("savepkl", "")
    /\ Len(files_to_download) = 2
    /\ Cardinality(AllImports) = 2

\* C5: when the reprojection of a selected file raises or leaves no output
\* file, the run ends in the fatal error: that file and the files after it
\* are not imported, the categories are not set, the files before it stay
\* imported, and cleanup runs before the process is gone.
C5_ReprojectionFailureIsFatal ==
    \A k \in 1..Len(filenames) :
        Done("warpfail", filenames[k]) =>
            /\ exitKind = "fatal"
            /\ pc \in {"atexit", "exited", "gone"}
            /\ \A j \in k..Len(filenames) : ~Done("import", filenames[j])
            /\ ~Done("annotate", "")
            /\ \A j \in 1..(k - 1) :
                 /\ Done("import", filenames[j])
                 /\ OutName(filenames[j], options.outputs) \in rasters
            /\ pc = "atexit" => ENABLED cleanup
            /\ pc \in {"exited", "gone"} =>
                 /\ Done("cleanup", "")
                 /\ \A d \in TempDirs : ~tempdirs[d].exists

\* the second of two selected files failed to reproject and the process has
\* exited
C5_Witness ==
    /\ Len(filenames) = 2
    /\ Done("warpfail", filenames[2])
    /\ Done("import", filenames[1])
    /\ pc = "gone"

\* C6: md5sums.pkl is written only with the directory option and a non-empty
\* files_to_download, and is otherwise left as it was; once written it holds,
\* for every file downloaded in this run, the checksum the archive reports
\* now, and for every other file what it held before the run.
C6_PklFrame ==
    /\ Done("savepkl", "") => (options.directory /\ Len(files_to_download) > 0)
    /\ (pc # "idle" /\ ~Done("savepkl", "")) =>
         (cacheDir.pkl = before.pkl /\ cacheDir.sums = before.sums)
    /\ Done("savepkl", "") =>
         /\ cacheDir.pkl
         /\ \A f \in RemoteFiles :
              cacheDir.sums[f] =
                 IF Done("download", f) THEN md5sums[f] ELSE before.sums[f]

\* md5sums.pkl was written in a run that downloaded a changed file and did
\* not select another file whose checksum was stored
C6_Witness ==
    /\ Done("savepkl", "")
    /\ \E f \in RemoteFiles, g \in RemoteFiles :
         /\ f \notin Selected
         /\ before.sums[f] # None
         /\ before.sums[f] # md5sums[f]
         /\ Done("download", g)
         /\ before.sums[g] # None
         /\ before.sums[g] # md5sums[g]

====
